---- MODULE Spec2Model ----
(***************************************************************************)
(* NodeAutoRepair (node-auto-repair): the per-node repair controller.      *)
(*                                                                         *)
(* One JavaScript event loop runs the informer callbacks, the timer        *)
(* callbacks and the promise continuations; each action below is one       *)
(* macrotask together with the microtasks it triggers.  The live read      *)
(* (readNode) and the repair action are the two asynchronous operations:   *)
(* they are "in flight" between the action that starts them and the action *)
(* that settles them.                                                      *)
(*                                                                         *)
(* brokenNodes maps a node name to a record OBJECT.  attemptRepair keeps a *)
(* reference to the object it looked up (line 161) across the read and the *)
(* repair, so records live in a heap (recs) and brokenNodes holds indices. *)
(* A record object that nothing refers to any more is garbage; its slot    *)
(* of the heap is blanked.                                                 *)
(*                                                                         *)
(* Time is relative: the code uses the clock only through differences      *)
(* (now - lastTransitionTime, setTimeout delays), so a timer carries the   *)
(* delay it has left and Tick lets one unit of time pass.  Timers fire in  *)
(* the order of their expiry; reads and repairs take any time.             *)
(***************************************************************************)
EXTENDS Integers, Sequences, FiniteSets, Bags, TLC

VARIABLES
    pc,           \* lifecycle: "init", "starting", "started", "stopped"
    crashed,      \* the process died on an uncaught exception / rejection
    paused,       \* repairQueue.isPaused
    brokenNodes,  \* this.brokenNodes: node name -> record index, NoRec = absent
    recs,         \* heap of broken-node record objects
    timers,       \* bag of armed timers (setTimeout not yet fired or cleared)
    reads,        \* bag of in-flight k8sApi.readNode calls
    queue,        \* repairQueue: tasks waiting for a slot (FIFO)
    running,      \* repairQueue: bag of tasks whose repair() has not settled
    calls,        \* AutoRepair callbacks invoked by the last step, in order
    lastAct,      \* what the last step was
    hist          \* per node: observations and reports so far

vars == <<pc, crashed, paused, brokenNodes, recs, timers, reads, queue,
          running, calls, lastAct, hist>>

----------------------------------------------------------------------------
(* Configuration: NodeAutoRepairOptions *)

concurrency == 1
maxAttempts == 2
unhealthyTime == 2
repairTimeout == 1

(* Bound of the model: the number of broken-node records ever created *)

MaxRecs == 2

Nodes == {"n1", "n2"}
Statuses == {"True", "False", "Unknown"}
NoRec == 0

----------------------------------------------------------------------------
(* Pure helpers *)

\* isNodeHealthy: the Ready condition's status compared with 'True'
isNodeHealthy(status) == status = "True"

\* wait = Math.max(unhealthyTime - downTime, 0),
\* where downTime = now - lastTransitionTime
Wait(downTime) ==
    LET w == unhealthyTime - downTime
    IN  IF w > 0 THEN w ELSE 0

\* PQueue({concurrency}): a task may start only while fewer than
\* `concurrency` tasks are running
HasCapacity_AlwaysTrue(run) == TRUE
HasCapacity(run) == BagCardinality(run) < concurrency

\* brokenNode.attempts++ ; repair(node, brokenNode.attempts): the value passed
\* is the incremented one
RepairArg_PostIncrement(old) == old
RepairArg(old) == old + 1

\* if (brokenNode.attempts > 0) repairSuccess(...)
ReportsSuccess_AlsoZero(attempts) == attempts >= 0
ReportsSuccess(attempts) == attempts > 0

\* a callback invocation; nth: for repair, the number of repair calls made
\* for the record so far, this one included (0 for the other callbacks)
Call(cb, n, a, r, nth) ==
    [cb |-> cb, node |-> n, attempts |-> a, rec |-> r, nth |-> nth]

\* lastAct: the step taken.  node: the node it concerns; obs: the health it
\* observed ("none" if it observed nothing); rec: the node's record before the
\* step and attempts: its attempts then (0 if there is none); crec: the record
\* the firing timer / settling read or task refers to; k: the number of the
\* repair attempt the timer or task belongs to (0: none); recov: the node was
\* observed healthy since that attempt was dispatched; first: the step is the
\* first attemptRepair that looked up record rec, early: and it came before
\* the node had been unhealthy for unhealthyTime; pend: before the step a
\* repair of the node was running or the timeout timer of one was armed
Act(kind, n, obs, r, cr, k, recov, first) ==
    [kind |-> kind, node |-> n, obs |-> obs, rec |-> r,
     attempts |-> IF r = NoRec THEN 0 ELSE recs[r].attempts,
     crec |-> cr, k |-> k, recov |-> recov, first |-> first,
     early |-> first /\ recs[r].unhealthyLeft > 0,
     pend |-> \E x \in BagToSet(running) \cup BagToSet(timers) :
                 x.node = n /\ x.k > 0]

Idle(kind) == Act(kind, "", "none", NoRec, NoRec, 0, FALSE, FALSE)

One(x) == SetToBag({x})

\* When the process dies its memory goes with it: the record map, the timers,
\* the pending reads and the queue are gone.
Mem(dies, v, gone) == IF dies THEN gone ELSE v

NoRecords == [n \in Nodes |-> NoRec]

----------------------------------------------------------------------------
(* Records carry, besides attempts (and timeout, see the timers):          *)
(*   unhealthyLeft  the time until the node has been unhealthy for         *)
(*                  unhealthyTime (lastTransitionTime + unhealthyTime -    *)
(*                  now), 0 once that has passed or the record was looked  *)
(*                  up by attemptRepair                                    *)
(*   verified       attemptRepair has looked the record up                 *)
(*   repairs        the number of repair calls made for the record         *)
(*                                                                         *)
(* Timers.  A timer remembers the record whose `timeout` field received its *)
(* handle; `held` says that field still refers to it, so that              *)
(* clearTimeout(record.timeout) reaches it.  left: the delay still to run. *)

Timer(kind, n, r, delay, k, recov) ==
    [kind |-> kind, node |-> n, rec |-> r, left |-> delay,
     held |-> r # NoRec, k |-> k, recov |-> recov]

\* record.timeout = setTimeout(...): the former handle of r is overwritten
SetTimeout(ts, t) ==
    BagOfAll(LAMBDA x : IF x.rec = t.rec THEN [x EXCEPT !.held = FALSE] ELSE x,
             ts) (+) One(t)

\* clearTimeout(record.timeout)
ClearTimeout(ts, r) ==
    LET hs == {x \in BagToSet(ts) : x.rec = r /\ x.held}
    IN  ts (-) SetToBag(hs)

\* a timer fires once its delay has elapsed (and the process is alive)
Due(t) == ~crashed /\ BagIn(t, timers) /\ t.left = 0

\* .finally with retry = true:
\*   brokenNode.timeout = setTimeout(() => handleStillUnhealthyNode(node), repairTimeout)
\* When brokenNode is undefined the assignment throws a TypeError; whether
\* setTimeout has been called by then (the right-hand side evaluated first)
\* depends on the engine: rhsFirst.
ArmStill(ts, n, r, k, recov, rhsFirst) ==
    IF r # NoRec \/ rhsFirst
    THEN SetTimeout(ts, Timer("still", n, r, repairTimeout, k, recov))
    ELSE ts

----------------------------------------------------------------------------
(* History kept per node for the properties: the last health observed, the  *)
(* progress since the last repairAttemptsFailed, and the number of           *)
(* repairAttemptsFailed reports since the last healthy observation.         *)

Hist0 == [lastObs |-> "none", sinceFail |-> "none", fails |-> 0]

Observe(h, healthy) ==
    IF healthy
    THEN [lastObs |-> "healthy",
          sinceFail |-> IF h.sinceFail = "failed" THEN "recovered" ELSE h.sinceFail,
          fails |-> 0]
    ELSE [lastObs |-> "unhealthy",
          sinceFail |-> IF h.sinceFail = "recovered" THEN "none" ELSE h.sinceFail,
          fails |-> h.fails]

GaveUp(h) ==
    [h EXCEPT !.sinceFail = "failed",
              !.fails = IF h.fails < 2 THEN h.fails + 1 ELSE 2]

----------------------------------------------------------------------------
(* The repair queue (p-queue) *)

Task(n, r, k, recov) == [node |-> n, rec |-> r, k |-> k, recov |-> recov]

\* Start queued tasks while a slot is free.  A started task runs
\*   brokenNode.attempts++; return this.autoRepair.repair(node, brokenNode.attempts)
\* up to the first await, i.e. the repair call is made in the same step.
\* When brokenNode is undefined the increment throws: repair is not called,
\* the task rejects at once and frees its slot, and its .finally runs
\* (ArmStill, which throws as well); st.threw records the rejection nobody
\* handles.
RECURSIVE DispatchAll(_, _)
DispatchAll(st, rhsFirst) ==
    IF st.queue = <<>> \/ ~HasCapacity(st.running)
    THEN st
    ELSE LET t == Head(st.queue)
         IN  IF t.rec = NoRec
             THEN DispatchAll([st EXCEPT !.queue = Tail(@),
                                         !.timers = ArmStill(@, t.node, NoRec, 0,
                                                             FALSE, rhsFirst),
                                         !.threw = TRUE],
                              rhsFirst)
             ELSE LET old == st.recs[t.rec].attempts
                  IN  DispatchAll(
                        [st EXCEPT !.queue = Tail(@),
                                   !.recs[t.rec].attempts = old + 1,
                                   !.recs[t.rec].repairs = @ + 1,
                                   !.running = @ (+) One(Task(t.node, t.rec, old + 1, FALSE)),
                                   !.calls = Append(@, Call("repair", t.node,
                                                 RepairArg(old), t.rec,
                                                 st.recs[t.rec].repairs + 1))],
                        rhsFirst)

\* the parts of the state the queue acts on
QState(q, run, ts) ==
    [queue |-> q, recs |-> recs, running |-> run, calls |-> <<>>, timers |-> ts,
     threw |-> FALSE]

\* the queue processes its tasks unless it is paused
Process(st, rhsFirst) == IF paused THEN st ELSE DispatchAll(st, rhsFirst)

----------------------------------------------------------------------------
(* handleHealthyNode *)

\* the node was observed healthy: every repair of it that is running, and
\* every timeout timer of a dispatched attempt that stays armed, belongs to
\* an attempt during which the node recovered
MarkRecovered(b, n) ==
    BagOfAll(LAMBDA x : IF x.node = n /\ x.k > 0
                        THEN [x EXCEPT !.recov = TRUE] ELSE x, b)

handleHealthyNode(n) ==
    LET r == brokenNodes[n]
    IN  IF r # NoRec
        THEN [brokenNodes |-> [brokenNodes EXCEPT ![n] = NoRec],
              timers |-> ClearTimeout(timers, r),
              calls |-> IF ReportsSuccess(recs[r].attempts)
                        THEN <<Call("repairSuccess", n, recs[r].attempts, r, 0)>>
                        ELSE <<>>]
        ELSE [brokenNodes |-> brokenNodes, timers |-> timers, calls |-> <<>>]

----------------------------------------------------------------------------
(* Garbage.  A record is reachable from brokenNodes and from the closures  *)
(* of attemptRepair (the pending read, the queued or running task, whose   *)
(* .then/.finally hold brokenNode).  Timer callbacks hold the node only.   *)
(* A record that is unreachable stays so; its heap slot is blanked, and a  *)
(* timer whose handle it held has no handle any more.                      *)

Gone == [node |-> "", attempts |-> 0, unhealthyLeft |-> 0, verified |-> TRUE,
         repairs |-> 0]

LiveNext ==
    {brokenNodes'[n] : n \in Nodes}
      \cup {x.rec : x \in BagToSet(reads')}
      \cup {queue'[i].rec : i \in DOMAIN queue'}
      \cup {x.rec : x \in BagToSet(running')}

\* the heap and the timers after the step: rs and ts, less the garbage
Keep(rs, ts) ==
    /\ recs' = [r \in DOMAIN rs |-> IF r \in LiveNext THEN rs[r] ELSE Gone]
    /\ timers' = BagOfAll(LAMBDA x : IF x.rec \in LiveNext THEN x
                                     ELSE [x EXCEPT !.rec = NoRec, !.held = FALSE],
                          ts)

----------------------------------------------------------------------------
Init ==
    /\ pc = "init"
    /\ crashed = FALSE
    /\ paused = TRUE
    /\ brokenNodes = NoRecords
    /\ recs = <<>>
    /\ timers = EmptyBag
    /\ reads = EmptyBag
    /\ queue = <<>>
    /\ running = EmptyBag
    /\ calls = <<>>
    /\ lastAct = Idle("init")
    /\ hist = [n \in Nodes |-> Hist0]

----------------------------------------------------------------------------
(* Lifecycle *)

\* start(), up to the await: makeInformer() and informer.start() are under
\* way, add/update events are delivered from here on
Start ==
    /\ ~crashed
    /\ pc = "init"
    /\ pc' = "starting"
    /\ calls' = <<>>
    /\ lastAct' = Idle("Start")
    /\ UNCHANGED <<crashed, paused, brokenNodes, recs, timers, reads,
                   queue, running, hist>>

\* start(), after the await: this.repairQueue.start()
\* (rhsFirst and dies matter only if a started task throws)
Started(rhsFirst, dies) ==
    /\ ~crashed
    /\ pc = "starting"
    /\ pc' = "started"
    /\ paused' = FALSE
    /\ crashed' = dies
    /\ brokenNodes' = Mem(dies, brokenNodes, NoRecords)
    /\ reads' = Mem(dies, reads, EmptyBag)
    /\ LET d == DispatchAll(QState(queue, running, timers), rhsFirst)
       IN  /\ (dies \/ rhsFirst) => d.threw
           /\ queue' = Mem(dies, d.queue, <<>>)
           /\ running' = Mem(dies, d.running, EmptyBag)
           /\ calls' = d.calls
           /\ Keep(Mem(dies, d.recs, <<>>), Mem(dies, d.timers, EmptyBag))
    /\ lastAct' = Idle("Started")
    /\ UNCHANGED hist

\* stop(): this.repairQueue.clear(); this.informer.stop().  The promises of
\* the cleared tasks never settle.  Timers, reads and running repairs are
\* left alone, and the queue is not paused.
Stop ==
    /\ ~crashed
    /\ pc = "started"
    /\ pc' = "stopped"
    /\ queue' = <<>>
    /\ calls' = <<>>
    /\ lastAct' = Idle("Stop")
    /\ UNCHANGED <<crashed, paused, brokenNodes, reads, running, hist>>
    /\ Keep(recs, timers)

----------------------------------------------------------------------------
(* handleInformerUpdate: an add/update event for node n whose Ready         *)
(* condition has the given status and changed downTime ago                  *)
(* (downTime = new Date().getTime() - lastTransitionTime.getTime())         *)

handleInformerUpdate(n, status, downTime) ==
    /\ ~crashed
    /\ pc \in {"starting", "started"}
    /\ UNCHANGED <<pc, crashed, paused, reads, queue>>
    /\ IF isNodeHealthy(status)
       THEN LET h == handleHealthyNode(n)
            IN  /\ brokenNodes' = h.brokenNodes
                /\ running' = MarkRecovered(running, n)
                /\ calls' = h.calls
                /\ Keep(recs, MarkRecovered(h.timers, n))
       ELSE IF brokenNodes[n] = NoRec
       THEN /\ Len(recs) < MaxRecs
            /\ calls' = <<>>
            /\ running' = running
            /\ LET r == Len(recs) + 1
               IN  /\ brokenNodes' = [brokenNodes EXCEPT ![n] = r]
                   /\ Keep(Append(recs, [node |-> n, attempts |-> 0,
                                         unhealthyLeft |-> unhealthyTime - downTime,
                                         verified |-> FALSE, repairs |-> 0]),
                           SetTimeout(timers,
                                      Timer("attempt", n, r, Wait(downTime), 0, FALSE)))
       ELSE /\ calls' = <<>>
            /\ UNCHANGED <<brokenNodes, recs, timers, running>>
    /\ hist' = [hist EXCEPT ![n] = Observe(@, isNodeHealthy(status))]
    /\ lastAct' = Act("handleInformerUpdate", n,
                      IF isNodeHealthy(status) THEN "healthy" ELSE "unhealthy",
                      brokenNodes[n], NoRec, 0, FALSE, FALSE)

----------------------------------------------------------------------------
(* attemptRepair, first part: look the record up and start the live read.   *)
(* The value is the read it starts and the heap afterwards (the record is   *)
(* now verified once, its debounce is over).                                *)

attemptRepair(n) ==
    LET r == brokenNodes[n]
    IN  [reads |-> reads (+) One([node |-> n, rec |-> r]),
         recs |-> IF r = NoRec THEN recs
                  ELSE [recs EXCEPT ![r].verified = TRUE, ![r].unhealthyLeft = 0]]

FirstLookup(n) == brokenNodes[n] # NoRec /\ ~recs[brokenNodes[n]].verified

\* the debounce timer of handleInformerUpdate fires
TimerAttempt(t) ==
    /\ Due(t)
    /\ t.kind = "attempt"
    /\ UNCHANGED <<pc, crashed, paused, brokenNodes, queue, running, hist>>
    /\ LET a == attemptRepair(t.node)
       IN  /\ reads' = a.reads
           /\ Keep(a.recs, timers (-) One(t))
    /\ calls' = <<>>
    /\ lastAct' = Act("TimerAttempt", t.node, "none", brokenNodes[t.node], t.rec,
                      0, FALSE, FirstLookup(t.node))

\* the give-up branch reports and returns: the record stays in brokenNodes
GiveUp_DeleteRecord(bn, n) == [bn EXCEPT ![n] = NoRec]
GiveUp(bn, n) == bn

\* the repairTimeout timer fires: handleStillUnhealthyNode
handleStillUnhealthyNode(t) ==
    /\ Due(t)
    /\ t.kind = "still"
    /\ UNCHANGED <<pc, paused>>
    /\ LET n == t.node
           r == brokenNodes[n]
       IN  IF r = NoRec
           THEN \* brokenNode is undefined: brokenNode.attempts throws a
                \* TypeError out of the timer callback
                /\ crashed' = TRUE
                /\ calls' = <<>>
                /\ lastAct' = Act("handleStillUnhealthyNode", n, "none", r,
                                  t.rec, t.k, t.recov, FALSE)
                /\ brokenNodes' = NoRecords
                /\ recs' = <<>>
                /\ timers' = EmptyBag
                /\ reads' = EmptyBag
                /\ queue' = <<>>
                /\ running' = EmptyBag
                /\ hist' = hist
           ELSE /\ crashed' = crashed
                /\ UNCHANGED <<queue, running>>
                /\ IF recs[r].attempts >= maxAttempts
                   THEN /\ brokenNodes' = GiveUp(brokenNodes, n)
                        /\ calls' = <<Call("repairAttemptFailed", n, recs[r].attempts, r, 0),
                                      Call("repairAttemptsFailed", n, recs[r].attempts, r, 0)>>
                        /\ hist' = [hist EXCEPT ![n] = GaveUp(@)]
                        /\ lastAct' = Act("handleStillUnhealthyNode", n, "none", r,
                                          t.rec, t.k, t.recov, FALSE)
                        /\ reads' = reads
                        /\ Keep(recs, timers (-) One(t))
                   ELSE /\ brokenNodes' = brokenNodes
                        /\ calls' = <<Call("repairAttemptFailed", n, recs[r].attempts, r, 0)>>
                        /\ LET a == attemptRepair(n)
                           IN  /\ reads' = a.reads
                               /\ Keep(a.recs, timers (-) One(t))
                        /\ lastAct' = Act("handleStillUnhealthyNode", n, "none", r,
                                          t.rec, t.k, t.recov, FirstLookup(n))
                        /\ hist' = hist

----------------------------------------------------------------------------
(* attemptRepair, second part: the read settles *)

\* let retry = true; ... if (isHealthy) { retry = false; ... }: the flag
\* .finally tests before it arms the repairTimeout timer
Retry_Always(isHealthy) == TRUE
Retry(isHealthy) == ~isHealthy

\* return this.repairQueue.add(...): the .then callback hands the promise of
\* the task on, so .finally (and the timer it arms) waits until the task has
\* settled; adding the task arms no timer
OnAdd_ArmNow(ts, n, r) ==
    SetTimeout(ts, Timer("still", n, r, repairTimeout, 0, FALSE))
OnAdd(ts, n, r) == ts

\* readNode resolves with a node whose Ready condition has the given status
\* (rhsFirst and dies matter only if a started task throws)
ReadResolves(rd, status, rhsFirst, dies) ==
    /\ ~crashed
    /\ BagIn(rd, reads)
    /\ UNCHANGED <<pc, paused>>
    /\ crashed' = dies
    /\ IF isNodeHealthy(status)
       THEN \* retry = false; handleHealthyNode(refreshedNode)
            LET h == handleHealthyNode(rd.node)
            IN  /\ ~dies /\ ~rhsFirst
                /\ brokenNodes' = h.brokenNodes
                /\ running' = MarkRecovered(running, rd.node)
                /\ calls' = h.calls
                /\ reads' = reads (-) One(rd)
                /\ queue' = queue
                /\ Keep(recs,
                        IF Retry(isNodeHealthy(status))
                        THEN ArmStill(MarkRecovered(h.timers, rd.node),
                                      rd.node, rd.rec, 0, FALSE, TRUE)
                        ELSE MarkRecovered(h.timers, rd.node))
       ELSE \* return this.repairQueue.add(...)
            LET d == Process(QState(Append(queue, Task(rd.node, rd.rec, 0, FALSE)),
                                    running, OnAdd(timers, rd.node, rd.rec)),
                             rhsFirst)
            IN  /\ (dies \/ rhsFirst) => d.threw
                /\ queue' = Mem(dies, d.queue, <<>>)
                /\ running' = Mem(dies, d.running, EmptyBag)
                /\ calls' = d.calls
                /\ brokenNodes' = Mem(dies, brokenNodes, NoRecords)
                /\ reads' = Mem(dies, reads (-) One(rd), EmptyBag)
                /\ Keep(Mem(dies, d.recs, <<>>), Mem(dies, d.timers, EmptyBag))
    /\ hist' = [hist EXCEPT ![rd.node] = Observe(@, isNodeHealthy(status))]
    /\ lastAct' = Act("ReadResolves", rd.node,
                      IF isNodeHealthy(status) THEN "healthy" ELSE "unhealthy",
                      brokenNodes[rd.node], rd.rec, 0, FALSE, FALSE)

\* readNode rejects: both .then are skipped, .finally arms the timer, and the
\* chain ends in a rejected promise nobody handles; whether that ends the
\* process depends on the runtime's unhandled-rejection mode
\* (rhsFirst matters only if the captured record is undefined)
ReadRejects(rd, rhsFirst, dies) ==
    /\ ~crashed
    /\ BagIn(rd, reads)
    /\ rhsFirst => rd.rec = NoRec
    /\ UNCHANGED <<pc, paused, hist>>
    /\ crashed' = dies
    /\ reads' = Mem(dies, reads (-) One(rd), EmptyBag)
    /\ brokenNodes' = Mem(dies, brokenNodes, NoRecords)
    /\ queue' = Mem(dies, queue, <<>>)
    /\ running' = Mem(dies, running, EmptyBag)
    /\ Keep(Mem(dies, recs, <<>>),
            Mem(dies, ArmStill(timers, rd.node, rd.rec, 0, FALSE, rhsFirst), EmptyBag))
    /\ calls' = <<>>
    /\ lastAct' = Act("ReadRejects", rd.node, "none", brokenNodes[rd.node],
                      rd.rec, 0, FALSE, FALSE)

----------------------------------------------------------------------------
(* attemptRepair, third part: the repair task settles.  The promise of     *)
(* repairQueue.add settles with it, .finally arms the timer, and the queue *)
(* starts its next task.                                                   *)

RepairSettles(t, kind, rhsFirst, dies) ==
    /\ ~crashed
    /\ BagIn(t, running)
    /\ UNCHANGED <<pc, paused, hist>>
    /\ crashed' = dies
    /\ brokenNodes' = Mem(dies, brokenNodes, NoRecords)
    /\ reads' = Mem(dies, reads, EmptyBag)
    /\ LET d == Process(QState(queue, running (-) One(t),
                               ArmStill(timers, t.node, t.rec, t.k, t.recov, rhsFirst)),
                        rhsFirst)
       IN  /\ dies => (kind = "RepairRejects" \/ d.threw)
           /\ rhsFirst => d.threw
           /\ queue' = Mem(dies, d.queue, <<>>)
           /\ running' = Mem(dies, d.running, EmptyBag)
           /\ calls' = d.calls
           /\ Keep(Mem(dies, d.recs, <<>>), Mem(dies, d.timers, EmptyBag))
    /\ lastAct' = Act(kind, t.node, "none", brokenNodes[t.node], t.rec, t.k,
                      t.recov, FALSE)

\* repair() resolves
RepairResolves(t, rhsFirst, dies) ==
    RepairSettles(t, "RepairResolves", rhsFirst, dies)

\* repair() rejects (or throws): the rejection passes through .finally and is
\* handled by nobody
RepairRejects(t, rhsFirst, dies) ==
    RepairSettles(t, "RepairRejects", rhsFirst, dies)

----------------------------------------------------------------------------
\* one unit of time passes; the event loop runs a timer that is due before
\* more time passes
Elapse(x) == IF x > 0 THEN x - 1 ELSE x

Tick ==
    /\ ~crashed
    /\ \A t \in BagToSet(timers) : t.left > 0
    /\ \/ timers # EmptyBag
       \/ \E r \in DOMAIN recs : recs[r].unhealthyLeft > 0
    /\ timers' = BagOfAll(LAMBDA t : [t EXCEPT !.left = Elapse(@)], timers)
    /\ recs' = [r \in DOMAIN recs |-> [recs[r] EXCEPT !.unhealthyLeft = Elapse(@)]]
    /\ calls' = <<>>
    /\ lastAct' = Idle("Tick")
    /\ UNCHANGED <<pc, crashed, paused, brokenNodes, reads, queue, running, hist>>

\* lastTransitionTime lies up to unhealthyTime in the past (an older one
\* gives the same wait)
DownTimes == 0 .. unhealthyTime

Next ==
    \/ Start
    \/ \E rhsFirst \in BOOLEAN, dies \in BOOLEAN : Started(rhsFirst, dies)
    \/ Stop
    \/ \E n \in Nodes, status \in Statuses :
         \E downTime \in IF isNodeHealthy(status) \/ brokenNodes[n] # NoRec
                         THEN {0} ELSE DownTimes :
           handleInformerUpdate(n, status, downTime)
    \/ \E t \in BagToSet(timers) : TimerAttempt(t)
    \/ \E t \in BagToSet(timers) : handleStillUnhealthyNode(t)
    \/ \E rd \in BagToSet(reads), status \in Statuses,
          rhsFirst \in BOOLEAN, dies \in BOOLEAN :
           ReadResolves(rd, status, rhsFirst, dies)
    \/ \E rd \in BagToSet(reads), rhsFirst \in BOOLEAN, dies \in BOOLEAN :
           ReadRejects(rd, rhsFirst, dies)
    \/ \E t \in BagToSet(running), rhsFirst \in BOOLEAN, dies \in BOOLEAN :
           RepairResolves(t, rhsFirst, dies)
    \/ \E t \in BagToSet(running), rhsFirst \in BOOLEAN, dies \in BOOLEAN :
           RepairRejects(t, rhsFirst, dies)
    \/ Tick

Spec == Init /\ [][Next]_vars

----------------------------------------------------------------------------
(* Properties *)

Repairs == {i \in DOMAIN calls : calls[i].cb = "repair"}

\* C1: at every moment the number of repair actions that have started and
\* not yet settled, over all nodes, is at most `concurrency`
C1_ConcurrencyBound == BagCardinality(running) <= concurrency

\* a repair of one node is running, all slots are taken, and the task of
\* another node waits in the started queue
C1_QueueFull ==
    /\ ~paused
    /\ BagCardinality(running) = concurrency
    /\ \E i \in DOMAIN queue : \E x \in BagToSet(running) : x.node # queue[i].node

\* C2: once repairAttemptsFailed has been reported for a node, no repair call
\* is made for it until it has been observed healthy and then unhealthy again
C2_NoRepairAfterGiveUp ==
    \A i \in Repairs : hist[calls[i].node].sinceFail = "none"

\* C3: between two healthy observations of a node repairAttemptsFailed is
\* reported at most once, and always with attempts = maxAttempts
C3_GiveUpOnce ==
    /\ \A n \in Nodes : hist[n].fails <= 1
    /\ \A i \in DOMAIN calls :
          calls[i].cb = "repairAttemptsFailed" => calls[i].attempts = maxAttempts

\* C4: repair is never invoked with attempts greater than maxAttempts
C4_MaxAttempts == \A i \in Repairs : calls[i].attempts <= maxAttempts

C6_SuccessOnlyAfterAttempt ==
    /\ \A i \in DOMAIN calls : calls[i].cb = "repairSuccess" => calls[i].attempts > 0
    /\ (lastAct.obs = "healthy" /\ lastAct.attempts = 0) =>
          /\ calls = <<>>
          /\ brokenNodes[lastAct.node] = NoRec
          /\ lastAct.rec # NoRec =>
                ~\E x \in BagToSet(timers) : x.rec = lastAct.rec /\ x.held

\* the re-fetch found healthy a node whose record had attempts = 0
C6_HealthyBeforeAttempt ==
    /\ lastAct.kind = "ReadResolves"
    /\ lastAct.obs = "healthy"
    /\ lastAct.rec # NoRec
    /\ lastAct.attempts = 0

\* C7: the first attemptRepair for a record does not come before the node
\* has been unhealthy for unhealthyTime
C7_Debounce == lastAct.first => ~lastAct.early

\* C8: when a node is observed healthy while a repair of it is running or the
\* timeout timer of a dispatched attempt is armed, repairSuccess is reported
\* with the record's attempts, and the timeout timer of that attempt never
\* fires
C8_RecoveryEndsAttempt ==
    /\ (lastAct.obs = "healthy" /\ lastAct.pend) =>
          /\ lastAct.rec # NoRec
          /\ calls = <<Call("repairSuccess", lastAct.node, lastAct.attempts,
                            lastAct.rec, 0)>>
    /\ lastAct.kind = "handleStillUnhealthyNode" => ~lastAct.recov

\* C9: after stop() no repair action is started
C9_StopStopsRepairs == pc = "stopped" => Repairs = {}

\* C10: when the timeout timer of dispatched attempt k fires and the node has
\* been unhealthy in every observation since the dispatch, repairAttemptFailed
\* (node, k) is reported, and if k < maxAttempts the next live read starts in
\* the same step
C10_AttemptFailedReported ==
    (/\ lastAct.kind = "handleStillUnhealthyNode"
     /\ lastAct.k > 0
     /\ ~lastAct.recov
     /\ hist[lastAct.node].lastObs = "unhealthy") =>
        /\ calls # <<>>
        /\ calls[1] = Call("repairAttemptFailed", lastAct.node, lastAct.k,
                           lastAct.rec, 0)
        /\ \A i \in DOMAIN calls : i > 1 => calls[i].cb # "repairAttemptFailed"
        /\ lastAct.k < maxAttempts =>
              BagIn([node |-> lastAct.node, rec |-> brokenNodes[lastAct.node]], reads)

\* the number of armed repairTimeout timers
StillTimers(ts) ==
    CopiesIn("still", BagOfAll(LAMBDA x : x.kind, ts))

\* C11 (as the claim states it): once the live read finds the node unhealthy,
\* the repairTimeout timer of the cycle is armed in that step
C11_TimerArmedAtOnce ==
    (lastAct.kind = "ReadResolves" /\ lastAct.obs = "unhealthy" /\ ~crashed) =>
        \E x \in BagToSet(timers) : x.kind = "still" /\ x.node = lastAct.node

\* C11 (amended): the step in which the live read finds the node unhealthy
\* and queues the repair task arms no timer; a repairTimeout timer is armed
\* only by a step in which a repair task settles (resolves, rejects, or
\* throws for want of a record) or the live read is rejected
C11_TimerWaitsForRepair ==
    [][/\ (/\ lastAct'.kind = "ReadResolves"
           /\ lastAct'.obs = "unhealthy"
           /\ lastAct'.crec # NoRec
           /\ ~crashed') => timers' = timers
       /\ StillTimers(timers') > StillTimers(timers) =>
            \/ lastAct'.kind \in {"RepairResolves", "RepairRejects", "ReadRejects"}
            \/ lastAct'.kind = "ReadResolves" /\ lastAct'.crec = NoRec
            \/ lastAct'.kind = "Started"
                 /\ \E i \in DOMAIN queue : queue[i].rec = NoRec]_vars

\* the read found the node unhealthy, its repair is running and no timer is
\* armed for the node
C11_RepairPending ==
    /\ lastAct.kind = "ReadResolves"
    /\ lastAct.obs = "unhealthy"
    /\ \E x \in BagToSet(running) : x.node = lastAct.node /\ x.rec = lastAct.crec
    /\ ~\E x \in BagToSet(timers) : x.node = lastAct.node

\* repairAttemptsFailed was reported by the last step
GivesUp == \E i \in DOMAIN calls : calls[i].cb = "repairAttemptsFailed"

\* C12 (as the claim states it): in the state after give-up the node has no
\* record
C12_GiveUpRemovesRecord == GivesUp => brokenNodes[lastAct.node] = NoRec

\* C12 (amended): in the state after give-up the node still has the record
\* the give-up was reported for, with the attempts that were reported
C12_GiveUpKeepsRecord ==
    GivesUp =>
        /\ lastAct.kind = "handleStillUnhealthyNode"
        /\ lastAct.rec # NoRec
        /\ brokenNodes[lastAct.node] = lastAct.rec
        /\ \A i \in DOMAIN calls :
              calls[i].attempts = recs[lastAct.rec].attempts
        /\ recs[lastAct.rec].attempts >= maxAttempts

\* the give-up has just been reported, after maxAttempts repair calls
C12_GaveUp == GivesUp /\ lastAct.attempts = maxAttempts /\ lastAct.k = maxAttempts

\* the armed timers of node n
TimersOf(n) == CopiesIn(n, BagOfAll(LAMBDA x : x.node, timers))

\* C13: every node has at most one armed timer, debounce and repairTimeout
\* timers counted together
C13_OneTimerPerNode == \A n \in Nodes : TimersOf(n) <= 1

\* the links of attempt sequences of node n that are pending: armed timers,
\* live reads in flight, repair tasks queued or running
ChainsOf(n) ==
    TimersOf(n)
      + CopiesIn(n, BagOfAll(LAMBDA x : x.node, reads))
      + Cardinality({i \in DOMAIN queue : queue[i].node = n})
      + CopiesIn(n, BagOfAll(LAMBDA x : x.node, running))

\* C14: an unhealthy event for a node that has a record changes nothing, and
\* no node ever has more than one attempt sequence pending, also after it
\* went unhealthy, healthy and unhealthy again with a read or repair in flight
C14_OneSequencePerNode ==
    [][/\ (/\ lastAct'.kind = "handleInformerUpdate"
           /\ lastAct'.obs = "unhealthy"
           /\ lastAct'.rec # NoRec) =>
             UNCHANGED <<brokenNodes, recs, timers, reads, queue, running>>
       /\ \A n \in Nodes : ChainsOf(n)' <= 1]_vars

\* C15: while the process runs, a node has a record exactly if its most
\* recent health observation (feed event or live read) was unhealthy
C15_RecordIffUnhealthy ==
    ~crashed =>
        \A n \in Nodes : brokenNodes[n] # NoRec <=> hist[n].lastObs = "unhealthy"

\* C16: when the live read of a verification finds the node healthy, that
\* step queues and starts no repair task, increments no attempts, arms no
\* repairTimeout timer and leaves the node without record; it reports
\* repairSuccess with the record's attempts if these are > 0 and nothing
\* otherwise
C16_HealthyAtVerification ==
    [][(lastAct'.kind = "ReadResolves" /\ lastAct'.obs = "healthy") =>
          /\ queue' = queue
          /\ BagCardinality(running') = BagCardinality(running)
          /\ \A r \in DOMAIN recs :
                recs'[r].attempts = recs[r].attempts \/ recs'[r] = Gone
          /\ StillTimers(timers') <= StillTimers(timers)
          /\ brokenNodes'[lastAct'.node] = NoRec
          /\ calls' = IF lastAct'.attempts > 0
                      THEN <<Call("repairSuccess", lastAct'.node,
                                  lastAct'.attempts, lastAct'.rec, 0)>>
                      ELSE <<>>]_vars

\* the live read found healthy a node whose record had attempts > 0
C16_HealthyAfterAttempt ==
    /\ lastAct.kind = "ReadResolves"
    /\ lastAct.obs = "healthy"
    /\ lastAct.attempts > 0
    /\ calls # <<>>

\* C17: when the repair action of attempt k rejects, the process goes on,
\* the record keeps attempts >= k, and the repairTimeout timer of attempt k is
\* armed as it is when the repair action resolves
C17_FailedRepairContinues ==
    (lastAct.kind = "RepairRejects" /\ lastAct.crec # NoRec) =>
        /\ ~crashed
        /\ recs[lastAct.crec].attempts >= lastAct.k
        /\ \E x \in BagToSet(timers) :
              /\ x.kind = "still"
              /\ x.node = lastAct.node
              /\ x.k = lastAct.k
              /\ x.left = repairTimeout

\* C18: whenever handleStillUnhealthyNode runs, the node has a record, it is
\* the record of the attempt sequence that armed the timer, and no healthy
\* observation was made of the node while that sequence's read or repair was
\* in flight
C18_TimerFindsItsRecord ==
    lastAct.kind = "handleStillUnhealthyNode" =>
        /\ lastAct.rec # NoRec
        /\ lastAct.rec = lastAct.crec
        /\ ~lastAct.recov
        /\ ~crashed

\* C19: repair is called only for a node that has a record at that moment,
\* namely the record the task was queued for; a task whose node was observed
\* healthy while it waited is not executed
C19_NoRepairWithoutRecord ==
    ~crashed =>
        \A i \in Repairs : /\ brokenNodes[calls[i].node] # NoRec
                           /\ brokenNodes[calls[i].node] = calls[i].rec

----------------------------------------------------------------------------
(* Termination.  The event loop runs every timer that is due, time passes, *)
(* and start() gets past its await.  For the property below every live     *)
(* read and every repair action is, in addition, taken to settle (resolve  *)
(* or reject) eventually.  Feed events are under no obligation.            *)

TimerFires ==
    \E t \in BagToSet(timers) : TimerAttempt(t) \/ handleStillUnhealthyNode(t)

ReadSettles ==
    \E rd \in BagToSet(reads), rhsFirst \in BOOLEAN, dies \in BOOLEAN :
        \/ \E status \in Statuses : ReadResolves(rd, status, rhsFirst, dies)
        \/ ReadRejects(rd, rhsFirst, dies)

RepairEnds ==
    \E t \in BagToSet(running), rhsFirst \in BOOLEAN, dies \in BOOLEAN :
        RepairResolves(t, rhsFirst, dies) \/ RepairRejects(t, rhsFirst, dies)

FairSpec ==
    /\ Spec
    /\ WF_vars(\E rhsFirst \in BOOLEAN, dies \in BOOLEAN : Started(rhsFirst, dies))
    /\ WF_vars(TimerFires)
    /\ WF_vars(Tick)
    /\ WF_vars(ReadSettles)
    /\ WF_vars(RepairEnds)

\* C20: once started and not stopped, a node that has been observed unhealthy
\* and is not observed healthy afterwards eventually has repairAttemptsFailed
\* reported
C20_SequenceTerminates ==
    \A n \in Nodes :
        (pc = "started" /\ brokenNodes[n] # NoRec)
          ~> (hist[n].fails > 0 \/ hist[n].lastObs = "healthy" \/ pc = "stopped")

====
